---- MODULE Spec2Model ----
(***************************************************************************)
(* TaskPool (src/unnamed/part_000, the class at lines 368-657): a          *)
(* bounded-concurrency scheduler of asynchronous task bodies.              *)
(*                                                                         *)
(* The program runs on one JavaScript thread.  Every public method runs    *)
(* to completion, and so does every promise reaction.  The model therefore *)
(* has one action per public method, one action for a body's promise       *)
(* settling (Settle), and one action that runs the reaction at the head of *)
(* the microtask queue (RunMicrotask).  The chain                          *)
(*     body(...).then(A).catch(B).finally(C)                               *)
(* takes three reactions in a row: a fulfilled body runs A, passes the     *)
(* catch, runs C; a rejected body passes the then, runs B, runs C; an      *)
(* exception thrown inside A rejects the promise B is attached to.         *)
(***************************************************************************)
EXTENDS Integers, Sequences, FiniteSets, TLC

\* Bounds of the model.
MaxTasks == 2          \* tasks ever handed to the pool (constructor + addTask)
MaxConcurrency == 2    \* largest concurrency limit that is configured

VARIABLES
  \* fields of TaskPool
  index, concurrency, allTasks, runningPool, maintainOrder, resultPool,
  chunkResultPool, restPool, isRunning, paused, immediately, autoSubmit,
  submit, autoSchedule,
  \* constructor parameters captured by the closures
  executor, immediatelyArg,
  \* the JavaScript environment
  nextArgs,      \* the next fresh task identity (a task's args identify it)
  deleted,       \* proxyTask.deleted of the proxy made for each task
  body,          \* each task's body promise, and the seq its proxy holds
  microtasks,    \* the promise reaction queue (FIFO)
  \* observations
  events,        \* the callbacks invoked by the last step, in order
  last,          \* the last step taken
  settled,       \* the tasks in the order in which their bodies settled
  produced,      \* Result Records ever appended to resultPool, per task
  drainCalls,    \* drain deliveries to executor since the pools were last non-empty
  scenario,      \* the pause-right-after-start scenario being followed, if any
  submitted      \* the Result Records handed to submit so far

vars == <<index, concurrency, allTasks, runningPool, maintainOrder, resultPool,
          chunkResultPool, restPool, isRunning, paused, immediately, autoSubmit,
          submit, autoSchedule, executor, immediatelyArg, nextArgs, deleted,
          body, microtasks, events, last, settled, produced, drainCalls,
          scenario, submitted>>

Ids == 1..MaxTasks
ConcurrencyValues == 0..MaxConcurrency

Max(a, b) == IF a >= b THEN a ELSE b
Min(a, b) == IF a <= b THEN a ELSE b

\* The whole state as one record, so that a handler is a function on states.
St == [index |-> index, concurrency |-> concurrency, allTasks |-> allTasks,
       runningPool |-> runningPool, maintainOrder |-> maintainOrder,
       resultPool |-> resultPool, chunkResultPool |-> chunkResultPool,
       restPool |-> restPool, isRunning |-> isRunning, paused |-> paused,
       immediately |-> immediately, autoSubmit |-> autoSubmit,
       submit |-> submit, autoSchedule |-> autoSchedule,
       executor |-> executor, immediatelyArg |-> immediatelyArg,
       nextArgs |-> nextArgs, deleted |-> deleted, body |-> body,
       microtasks |-> microtasks, events |-> <<>>, last |-> last,
       settled |-> settled, produced |-> produced, drainCalls |-> drainCalls,
       scenario |-> scenario, submitted |-> submitted]

Commit(S) ==
  /\ index' = S.index
  /\ concurrency' = S.concurrency
  /\ allTasks' = S.allTasks
  /\ runningPool' = S.runningPool
  /\ maintainOrder' = S.maintainOrder
  /\ resultPool' = S.resultPool
  /\ chunkResultPool' = S.chunkResultPool
  /\ restPool' = S.restPool
  /\ isRunning' = S.isRunning
  /\ paused' = S.paused
  /\ immediately' = S.immediately
  /\ autoSubmit' = S.autoSubmit
  /\ submit' = S.submit
  /\ autoSchedule' = S.autoSchedule
  /\ executor' = S.executor
  /\ immediatelyArg' = S.immediatelyArg
  /\ nextArgs' = S.nextArgs
  /\ deleted' = S.deleted
  /\ body' = S.body
  /\ microtasks' = S.microtasks
  /\ events' = S.events
  /\ last' = S.last
  /\ settled' = S.settled
  /\ produced' = S.produced
  /\ drainCalls' =
       IF Len(S.restPool) > 0 \/ Len(S.runningPool) > 0 THEN 0 ELSE S.drainCalls
  /\ scenario' = S.scenario
  /\ submitted' = S.submitted

SeqsOf(s) == {s[i].seq : i \in 1..Len(s)}
ArgsOf(s) == {s[i].args : i \in 1..Len(s)}
Find(s, seq) ==
  IF seq \in SeqsOf(s)
  THEN <<s[CHOOSE i \in 1..Len(s) :
             s[i].seq = seq /\ \A j \in 1..(i - 1) : s[j].seq # seq]>>
  ELSE <<>>

\* Array.prototype.sort((a, b) => a.seq - b.seq): stable, ascending by seq.
InsertBySeq(r, s) ==
  LET k == Cardinality({i \in 1..Len(s) : s[i].seq <= r.seq})
  IN SubSeq(s, 1, k) \o <<r>> \o SubSeq(s, k + 1, Len(s))

RECURSIVE SortBySeq(_)
SortBySeq(s) ==
  IF s = <<>> THEN <<>>
  ELSE InsertBySeq(s[Len(s)], SortBySeq(SubSeq(s, 1, Len(s) - 1)))

Emit(S, cb, arr, arg) ==
  [S EXCEPT !.events = Append(@, [cb |-> cb, arr |-> arr, arg |-> arg]),
            !.submitted = IF cb = "submit"
                          THEN @ \cup {arr[i] : i \in 1..Len(arr)} ELSE @]

\* { body: task.body, args: task.args, seq: task.seq, deleted: false }:
\* the proxy does not carry the task's handleDelete.
proxyTask(task) == [args |-> task.args, seq |-> task.seq, handleDelete |-> FALSE]

ResultRecord(p, status) == [seq |-> p.seq, result |-> p.args, status |-> status]

\* A turn that takes the task added last (pop) instead of the first (shift).
DequeueNewest(S) ==
  LET task == S.restPool[Len(S.restPool)]
      p == proxyTask(task)
  IN Emit([S EXCEPT !.restPool = SubSeq(@, 1, Len(@) - 1),
                    !.runningPool = Append(@, p),
                    !.deleted[p.args] = FALSE,
                    !.body[p.args] = [st |-> "pending", seq |-> p.seq]],
          "body", <<>>, p.args)

\* One turn of executorFn's while loop: shift, wrap, push, invoke the body.
Dequeue(S) ==
  LET task == Head(S.restPool)
      p == proxyTask(task)
  IN Emit([S EXCEPT !.restPool = Tail(@),
                    !.runningPool = Append(@, p),
                    !.deleted[p.args] = FALSE,
                    !.body[p.args] = [st |-> "pending", seq |-> p.seq]],
          "body", <<>>, p.args)

\* A loop test that lets one task too many in.
CanDequeueOffByOne(S) ==
  Len(S.restPool) > 0 /\ Len(S.runningPool) <= S.concurrency

\* while (this.restPool.length && this.runningPool.length < this.concurrency)
CanDequeue(S) == Len(S.restPool) > 0 /\ Len(S.runningPool) < S.concurrency

RECURSIVE executorLoop(_)
executorLoop(S) == IF CanDequeue(S) THEN executorLoop(Dequeue(S)) ELSE S

\* A pass that does not look at the paused flag.
executorFnIgnoringPause(S) == executorLoop(S)

\* this.executorFn: lines 481-537 (the settlement continuation is below).
executorFn(S) == IF S.paused THEN S ELSE executorLoop(S)

(***************************************************************************)
(* The settlement continuation attached to a started body (lines 491-533). *)
(* Each handler returns the state it leaves and whether it threw.          *)
(***************************************************************************)

\* .then((crtRes) => { ... }): lines 493-506.  exThrows: executor throws.
thenHandler(S, p, exThrows) ==
  IF S.deleted[p.args] THEN [st |-> S, threw |-> FALSE]
  ELSE
    LET S1 == [S EXCEPT !.resultPool = Append(@, ResultRecord(p, "success")),
                        !.chunkResultPool = Append(@, ResultRecord(p, "success")),
                        !.produced[p.args] = @ + 1]
        call == S1.immediatelyArg /\ S1.executor
        S2 == IF call THEN Emit(S1, "executor", S1.resultPool, p.seq) ELSE S1
        S3 == [S2 EXCEPT !.runningPool = SelectSeq(@, LAMBDA f : f.seq # p.seq)]
    IN IF call /\ exThrows
       THEN [st |-> S2, threw |-> TRUE]
       ELSE [st |-> executorFn(S3), threw |-> FALSE]

\* .catch((err) => { ... }): lines 507-519.
catchHandler(S, p, exThrows) ==
  IF S.deleted[p.args] THEN [st |-> S, threw |-> FALSE]
  ELSE
    LET S1 == [S EXCEPT !.resultPool = Append(@, ResultRecord(p, "error")),
                        !.chunkResultPool = Append(@, ResultRecord(p, "error")),
                        !.produced[p.args] = @ + 1,
                        !.runningPool = SelectSeq(@, LAMBDA f : f.seq # p.seq)]
        call == S1.immediatelyArg /\ S1.executor
        S2 == IF call THEN Emit(S1, "executor", S1.resultPool, p.seq) ELSE S1
    IN IF call /\ exThrows
       THEN [st |-> S2, threw |-> TRUE]
       ELSE [st |-> executorFn(S2), threw |-> FALSE]

\* The drain test of the finally callback: line 522.
Drained(S) == Len(S.restPool) = 0 /\ Len(S.runningPool) = 0

\* Lines 523-525: the one delivery of the whole resultPool.
drainDeliver(S) ==
  IF ~S.immediatelyArg /\ S.executor /\ Len(S.resultPool) > 0
  THEN LET S1 == IF S.maintainOrder
                 THEN [S EXCEPT !.resultPool = SortBySeq(@)] ELSE S
       IN Emit([S1 EXCEPT !.drainCalls = @ + 1], "executor", S1.resultPool, -1)
  ELSE S

\* Lines 527-530: hand the chunk to submit, then empty it.
\* outcome: what submit does: "value", "rejected" (a rejected promise) or "throws".
autoSubmitBlock(S, outcome) ==
  IF S.autoSubmit /\ S.submit /\ Len(S.chunkResultPool) > 0
  THEN LET S1 == IF S.maintainOrder
                 THEN [S EXCEPT !.chunkResultPool = SortBySeq(@)] ELSE S
           S2 == Emit(S1, "submit", S1.chunkResultPool, -1)
       IN IF outcome = "throws"
          THEN [st |-> S2, threw |-> TRUE]
          ELSE [st |-> [S2 EXCEPT !.chunkResultPool = <<>>], threw |-> FALSE]
  ELSE [st |-> S, threw |-> FALSE]

\* .finally(() => { ... }): lines 520-533.
finallyHandler(S, exThrows, outcome) ==
  IF ~Drained(S) THEN S
  ELSE
    LET S1 == drainDeliver(S)
        delivered == Len(S1.events) > Len(S.events)
        r == autoSubmitBlock(S1, outcome)
    IN IF delivered /\ exThrows THEN S1
       ELSE IF r.threw THEN r.st
       ELSE [r.st EXCEPT !.isRunning = FALSE]

(***************************************************************************)
(* The public methods.                                                     *)
(***************************************************************************)

\* this.start: lines 600-604.
start(S) ==
  IF S.isRunning THEN S ELSE executorFn([S EXCEPT !.isRunning = TRUE])

\* The map(m => ({ ...m, seq: this.index++ })) of lines 478 and 541.
\* hds[i]: whether the i-th new task has a handleDelete.
tasksWithSeq(S, hds) ==
  [i \in 1..Len(hds) |-> [args |-> S.nextArgs + i - 1,
                          handleDelete |-> hds[i],
                          seq |-> S.index + i - 1]]

\* this.addTask: lines 539-558.  A single task is the one-element case.
addTask(S, hds) ==
  LET new == tasksWithSeq(S, hds)
      S1 == [S EXCEPT !.index = @ + Len(hds),
                      !.nextArgs = @ + Len(hds),
                      !.restPool = @ \o new,
                      !.allTasks = @ \o new]
  IN IF S1.autoSchedule
     THEN IF S1.isRunning THEN executorFn(S1) ELSE start(S1)
     ELSE S1

\* target.handleDelete?.(...(target.args ?? [])): lines 566, 575, 583.
callHandleDelete(S, target) ==
  IF target.handleDelete THEN Emit(S, "handleDelete", <<>>, target.args) ELSE S

\* this.deleteTask: lines 560-591.  hdThrows: the cleanup callback throws.
deleteTask(S, seq, hdThrows) ==
  LET runningTask == Find(S.runningPool, seq)
      restTask == Find(S.restPool, seq)
      doneTarget == Find(S.allTasks, seq)
  IN IF runningTask # <<>>
     THEN LET S1 == callHandleDelete(
                      [S EXCEPT !.deleted[runningTask[1].args] = TRUE],
                      runningTask[1])
          IN IF runningTask[1].handleDelete /\ hdThrows THEN S1
             ELSE executorFn(
                    [S1 EXCEPT
                       !.runningPool = SelectSeq(@, LAMBDA f : f.seq # seq),
                       !.allTasks = SelectSeq(@, LAMBDA f : f.seq # seq)])
     ELSE IF restTask # <<>>
     THEN LET S1 == callHandleDelete(S, restTask[1])
          IN IF restTask[1].handleDelete /\ hdThrows THEN S1
             ELSE executorFn(
                    [S1 EXCEPT
                       !.restPool = SelectSeq(@, LAMBDA f : f.seq # seq),
                       !.allTasks = SelectSeq(@, LAMBDA f : f.seq # seq)])
     ELSE IF doneTarget # <<>>
     THEN LET S1 == callHandleDelete(S, doneTarget[1])
          IN IF doneTarget[1].handleDelete /\ hdThrows THEN S1
             ELSE executorFn(
                    [S1 EXCEPT
                       !.allTasks = SelectSeq(@, LAMBDA f : f.seq # seq),
                       !.resultPool = SelectSeq(@, LAMBDA f : f.seq # seq),
                       !.chunkResultPool = SelectSeq(@, LAMBDA f : f.seq # seq)])
     ELSE executorFn(S)

\* A stop that leaves the waiting tasks in restPool.
stopKeepsWaiting(S) ==
  [S EXCEPT !.runningPool = <<>>, !.isRunning = FALSE, !.paused = FALSE]

\* this.stop: lines 593-598.
stop(S) ==
  [S EXCEPT !.restPool = <<>>, !.runningPool = <<>>,
            !.isRunning = FALSE, !.paused = FALSE]

\* this.reset: lines 606-615.
reset(S) ==
  [S EXCEPT !.index = 0, !.allTasks = <<>>, !.runningPool = <<>>,
            !.resultPool = <<>>, !.chunkResultPool = <<>>, !.restPool = <<>>,
            !.isRunning = FALSE, !.paused = FALSE]

\* this.setConcurrency: lines 617-619.
setConcurrency(S, newConcurrency) == [S EXCEPT !.concurrency = newConcurrency]

\* A pause that does not set the flag.
pauseForgets(S) == S

\* this.pause: lines 633-635.
pause(S) == [S EXCEPT !.paused = TRUE]

\* this.resume: lines 637-647.
resume(S) ==
  IF ~S.paused THEN S
  ELSE LET S1 == [S EXCEPT !.paused = FALSE]
       IN IF ~S1.isRunning THEN start(S1) ELSE executorFn(S1)

\* setImmediately: lines 431-433.  It writes the field; the closures of the
\* constructor read the constructor's parameter (immediatelyArg).
setImmediately(S, newVal) == [S EXCEPT !.immediately = newVal]

\* setAutoSchedule: lines 439-441.
setAutoSchedule(S, val) == [S EXCEPT !.autoSchedule = val]

\* this.getStatus: lines 621-631.
getStatus ==
  [total |-> Len(allTasks), running |-> Len(runningPool),
   waiting |-> Len(restPool), finished |-> Len(resultPool),
   chunkFinished |-> Len(chunkResultPool), results |-> resultPool,
   paused |-> paused]

(***************************************************************************)
(* The state machine.                                                      *)
(***************************************************************************)

\* The task lists handed to the constructor or to addTask: for each task,
\* whether it has a handleDelete.
TaskLists == UNION {[1..n -> BOOLEAN] : n \in 0..2}
SubmitOutcomes == {"value", "rejected", "throws"}
Off == [phase |-> "off", n |-> 0, idle |-> FALSE, c |-> 0]

\* The constructor: lines 454-480, called with a concurrency of cs, a
\* maintainOrder of mos, an immediately of ims and an autoSubmit of ass
\* (submit is given exactly when autoSubmit is set; executor is given).
Construct(cs, mos, ims, ass) ==
  /\ concurrency \in cs
  /\ maintainOrder \in mos
  /\ immediatelyArg \in ims
  /\ immediately = immediatelyArg
  /\ autoSubmit \in ass
  /\ submit = autoSubmit
  /\ executor = TRUE
  /\ \E hds \in TaskLists :
       /\ allTasks = [i \in 1..Len(hds) |->
                        [args |-> i, handleDelete |-> hds[i], seq |-> i - 1]]
       /\ index = Len(hds)
       /\ nextArgs = Len(hds) + 1
  /\ restPool = allTasks
  /\ runningPool = <<>>
  /\ resultPool = <<>>
  /\ chunkResultPool = <<>>
  /\ isRunning = FALSE
  /\ paused = FALSE
  /\ autoSchedule = TRUE
  /\ deleted = [t \in Ids |-> FALSE]
  /\ body = [t \in Ids |-> [st |-> "new", seq |-> 0]]
  /\ microtasks = <<>>
  /\ events = <<>>
  /\ last = [op |-> "new", arg |-> 0, flag |-> FALSE, n |-> 0]
  /\ settled = <<>>
  /\ produced = [t \in Ids |-> 0]
  /\ drainCalls = 0
  /\ scenario = Off
  /\ submitted = {}

\* What the step does to the scenario being followed: start() with an empty
\* runningPool and N > 0 waiting tasks opens it, pause() as the very next
\* call confirms it, and it lasts until resume() or until a call changes
\* the waiting tasks by itself (addTask, deleteTask, stop, reset).
NextScenario(op) ==
  CASE op = "start" /\ scenario.phase # "paused" ->
         IF Len(runningPool) = 0 /\ Len(restPool) > 0
         THEN [phase |-> "started", n |-> Len(restPool),
               idle |-> ~isRunning /\ ~paused, c |-> concurrency]
         ELSE Off
    [] op = "pause" /\ scenario.phase = "started" ->
         [scenario EXCEPT !.phase = "paused"]
    [] op \in {"resume", "addTask", "deleteTask", "stop", "reset"} -> Off
    [] OTHER -> IF scenario.phase = "paused" THEN scenario ELSE Off

Obs(S, op, arg, flag, n) ==
  [S EXCEPT !.last = [op |-> op, arg |-> arg, flag |-> flag, n |-> n],
            !.scenario = NextScenario(op)]

AddTask ==
  \E hds \in TaskLists :
    /\ nextArgs + Len(hds) - 1 <= MaxTasks
    /\ Commit(Obs(addTask(St, hds), "addTask", Len(hds), FALSE, 0))

\* last.flag: the task was running and was given a handleDelete;
\* last.n: the identity (args) of the running task, 0 when none was running.
DeleteTask ==
  \E seq \in 0..(MaxTasks - 1), hdThrows \in BOOLEAN :
    LET r == Find(runningPool, seq)
        known == IF r = <<>> THEN <<>>
                 ELSE SelectSeq(allTasks, LAMBDA f : f.args = r[1].args)
    IN Commit(Obs(deleteTask(St, seq, hdThrows), "deleteTask", seq,
                  known # <<>> /\ known[1].handleDelete,
                  IF r = <<>> THEN 0 ELSE r[1].args))

Start == Commit(Obs(start(St), "start", 0,
                    Len(runningPool) = 0 /\ Len(restPool) > 0, Len(restPool)))

Stop == Commit(Obs(stop(St), "stop", 0, FALSE, 0))

Reset == Commit(Obs(reset(St), "reset", 0, FALSE, 0))

SetConcurrency ==
  \E newConcurrency \in ConcurrencyValues :
    Commit(Obs(setConcurrency(St, newConcurrency), "setConcurrency",
               newConcurrency, FALSE, 0))

Pause == Commit(Obs(pause(St), "pause", 0, FALSE, 0))

Resume == Commit(Obs(resume(St), "resume", 0, FALSE, 0))

SetImmediately ==
  \E newVal \in BOOLEAN :
    Commit(Obs(setImmediately(St, newVal), "setImmediately", 0, newVal, 0))

SetAutoSchedule ==
  \E val \in BOOLEAN :
    Commit(Obs(setAutoSchedule(St, val), "setAutoSchedule", 0, val, 0))

\* The promise of a started body settles (fulfilled when ok, rejected
\* otherwise); its first reaction is queued.
SettleWith(oks) ==
  \E t \in Ids, ok \in oks :
    /\ body[t].st = "pending"
    /\ Commit(Obs([St EXCEPT
                     !.body[t].st = "settled",
                     !.settled = Append(@, t),
                     !.microtasks = Append(@, [args |-> t, seq |-> body[t].seq,
                                               stage |-> "then",
                                               rejected |-> ~ok])],
                  "settle", t, ok, 0))

Settle == SettleWith(BOOLEAN)

Enqueue(S, j) == [S EXCEPT !.microtasks = Append(@, j)]

\* One promise reaction of the chain body(...).then(A).catch(B).finally(C).
\* exs: whether executor throws when it is called; outcomes: what submit
\* does when it is called.  last.op is the handler that ran ("pass": the
\* reaction only passed the value on), last.arg the task, last.flag whether
\* the handler threw.
RunMicrotaskWith(exs, outcomes) ==
  /\ microtasks # <<>>
  /\ \E exThrows \in exs,
        outcome \in (IF autoSubmit /\ submit THEN outcomes ELSE {"value"}) :
       LET j == Head(microtasks)
           p == [args |-> j.args, seq |-> j.seq]
           S0 == [St EXCEPT !.microtasks = Tail(@)]
       IN CASE j.stage = "then" /\ ~j.rejected ->
                 LET r == thenHandler(S0, p, exThrows)
                 IN Commit(Obs(Enqueue(r.st, [j EXCEPT !.stage = "catch",
                                                       !.rejected = r.threw]),
                               "then", j.args, r.threw, j.seq))
            [] j.stage = "then" /\ j.rejected ->
                 Commit(Obs(Enqueue(S0, [j EXCEPT !.stage = "catch"]),
                            "pass", j.args, FALSE, j.seq))
            [] j.stage = "catch" /\ j.rejected ->
                 LET r == catchHandler(S0, p, exThrows)
                 IN Commit(Obs(Enqueue(r.st, [j EXCEPT !.stage = "finally",
                                                       !.rejected = r.threw]),
                               "catch", j.args, r.threw, j.seq))
            [] j.stage = "catch" /\ ~j.rejected ->
                 Commit(Obs(Enqueue(S0, [j EXCEPT !.stage = "finally"]),
                            "pass", j.args, FALSE, j.seq))
            [] OTHER ->
                 Commit(Obs(finallyHandler(S0, exThrows, outcome),
                            "finally", j.args, FALSE, j.seq))

RunMicrotask == RunMicrotaskWith(BOOLEAN, SubmitOutcomes)

(***************************************************************************)
(* Spec: the scheduling behaviour.  Every public method that schedules,    *)
(* called between two microtask checkpoints (a method call is part of a    *)
(* task of the event loop, and the reactions queued so far run before the  *)
(* next task); bodies settle at any time.  Results are delivered in        *)
(* completion order and nothing is submitted.                              *)
(***************************************************************************)
Init == Construct({MaxConcurrency}, {FALSE}, BOOLEAN, {FALSE})

Quiescent == microtasks = <<>>

Next ==
  \/ Quiescent /\ AddTask
  \/ Quiescent /\ DeleteTask
  \/ Quiescent /\ Start
  \/ Quiescent /\ Stop
  \/ Quiescent /\ Reset
  \/ Quiescent /\ SetConcurrency
  \/ Quiescent /\ Pause
  \/ Quiescent /\ Resume
  \/ Settle
  \/ RunMicrotask

Spec == Init /\ [][Next]_vars

(***************************************************************************)
(* SpecDeliver: the delivery behaviour.  Every combination of              *)
(* maintainOrder, immediately and autoSubmit; tasks are added, started and *)
(* deleted at any moment, also between two reactions.  The result callback *)
(* returns normally; submit returns a value, a rejected promise or throws. *)
(***************************************************************************)
InitDeliver == Construct(1..MaxConcurrency, BOOLEAN, BOOLEAN, BOOLEAN)

RunMicrotaskQuietExecutor == RunMicrotaskWith({FALSE}, SubmitOutcomes)

NextDeliver ==
  \/ AddTask
  \/ DeleteTask
  \/ Start
  \/ Settle
  \/ RunMicrotaskQuietExecutor

SpecDeliver == InitDeliver /\ [][NextDeliver]_vars


(***************************************************************************)
(* SpecRun: one run to the drain.  N tasks given to the constructor, a     *)
(* concurrency of at least 1, start() called once, every body fulfils;     *)
(* nothing is added, deleted, stopped, reset or paused.                    *)
(***************************************************************************)
InitRun == Construct(1..MaxConcurrency, BOOLEAN, BOOLEAN, BOOLEAN)

StartOnce == last.op = "new" /\ Start

SettleFulfilled == SettleWith({TRUE})

NextRun ==
  \/ StartOnce
  \/ SettleFulfilled
  \/ RunMicrotask

SpecRun ==
  /\ InitRun
  /\ [][NextRun]_vars
  /\ WF_vars(StartOnce)
  /\ WF_vars(SettleFulfilled)
  /\ WF_vars(RunMicrotask)

(***************************************************************************)
(* SpecSet: the live setters.  Tasks are added and started at any moment,  *)
(* also between two reactions, and their bodies settle.  setImmediately is *)
(* called when no reaction is queued, so that every reaction that runs     *)
(* after the call belongs to a body that settled after it.  The result     *)
(* callback returns normally.                                              *)
(***************************************************************************)
InitSet == Construct(1..MaxConcurrency, {FALSE}, BOOLEAN, {FALSE})

NextSet ==
  \/ AddTask
  \/ Start
  \/ Quiescent /\ SetImmediately
  \/ SetAutoSchedule
  \/ Settle
  \/ RunMicrotaskQuietExecutor

SpecSet == InitSet /\ [][NextSet]_vars

(***************************************************************************)
(* SpecReset: reset() among running bodies.  Tasks are added and started,  *)
(* reset() is called at any moment, bodies started before it settle after  *)
(* it.  No task is deleted and stop() is not called, so that a started     *)
(* task that is not in allTasks was started before the last reset().       *)
(* The result callback returns normally.                                   *)
(***************************************************************************)
InitReset == Construct(1..MaxConcurrency, {FALSE}, BOOLEAN, {FALSE})

NextReset ==
  \/ AddTask
  \/ Start
  \/ Reset
  \/ Settle
  \/ RunMicrotaskQuietExecutor

SpecReset == InitReset /\ [][NextReset]_vars

(***************************************************************************)
(* SpecOrder: the order in which bodies are invoked.  Either value of      *)
(* maintainOrder and every concurrency; tasks are added, deleted and       *)
(* started and the scheduler is reset between two microtask checkpoints;   *)
(* bodies fulfil at any time.  The result callback returns normally.       *)
(***************************************************************************)
InitOrder == Construct(1..MaxConcurrency, BOOLEAN, {FALSE}, {FALSE})

NextOrder ==
  \/ Quiescent /\ AddTask
  \/ Quiescent /\ DeleteTask
  \/ Quiescent /\ Start
  \/ Quiescent /\ Reset
  \/ Quiescent /\ SetConcurrency
  \/ SettleFulfilled
  \/ RunMicrotaskQuietExecutor

SpecOrder == InitOrder /\ [][NextOrder]_vars

(***************************************************************************)
(* The claims.                                                             *)
(***************************************************************************)

Calls(cb) == SelectSeq(events, LAMBDA e : e.cb = cb)
Delivered == SelectSeq(events, LAMBDA e : e.cb \in {"executor", "submit"})

\* C1 as stated: in every reachable state the number of tasks in runningPool
\* is at most max(concurrency, 0), concurrency being the current limit.
C1_RunningWithinLimit == Len(runningPool) <= Max(concurrency, 0)

\* C1 as amended: no step leaves runningPool both larger than it was and
\* larger than max(concurrency, 0); runningPool exceeds the current limit
\* only after setConcurrency lowered the limit below the number of tasks
\* already running, and then it does not grow.
C1_RunningNeverGrowsPastLimit ==
  [][Len(runningPool') <= Max(Len(runningPool), Max(concurrency', 0))]_vars

\* A scheduling pass ran (addTask of a task) while runningPool was above the
\* lowered limit: the task waits.
C1_Witness ==
  /\ last.op = "addTask" /\ last.arg > 0
  /\ ~paused
  /\ Len(runningPool) > Max(concurrency, 0)
  /\ Len(restPool) > 0

\* C2: for every task at most one Result Record is ever appended to
\* resultPool, and none for a task deleted while its body is unsettled.
C2_AtMostOneRecord ==
  \A t \in Ids :
    /\ produced[t] <= 1
    /\ (deleted[t] /\ body[t].st = "pending" => produced[t] = 0)

\* C3: with immediately = false and a result callback, a drain invokes the
\* result callback exactly once: not again while the pools stay empty, and
\* once when the drain check has run with a non-empty resultPool.
C3_OneCallbackPerDrain ==
  (~immediatelyArg /\ executor) =>
    /\ drainCalls <= 1
    /\ (last.op = "finally" /\ Drained(St) /\ Len(resultPool) > 0
          => drainCalls = 1)

\* C4: deleteTask(seq) on a task that is in runningPool and has a cleanup
\* callback invokes that callback exactly once, with the task's arguments.
C4_CleanupOnRunningDelete ==
  (last.op = "deleteTask" /\ last.flag) =>
    Len(SelectSeq(Calls("handleDelete"), LAMBDA e : e.arg = last.n)) = 1

\* C5 as stated: when pause() directly follows a start() that found N > 0
\* waiting tasks and an empty runningPool, then until resume() waiting
\* stays N and running stays 0.
C5_NothingStartsAfterStartPause ==
  scenario.phase = "paused" =>
    /\ getStatus.waiting = scenario.n
    /\ getStatus.running = 0

\* The tasks that start() itself starts before it returns.
StartedByStart ==
  IF scenario.idle THEN Min(scenario.n, Max(scenario.c, 0)) ELSE 0

NoBodyInvoked == Calls("body") = <<>>

\* C5 as amended: start() has started min(N, max(concurrency, 0)) tasks
\* before pause() is called (none when the scheduler was already active or
\* paused); from pause() until resume() no further task starts: waiting
\* stays N minus that number and running does not exceed that number.
C5_NothingMoreStartsAfterStartPause ==
  scenario.phase = "paused" =>
    /\ getStatus.waiting = scenario.n - StartedByStart
    /\ getStatus.running <= StartedByStart
    /\ NoBodyInvoked

\* Paused right after start(): the task start() started has settled and
\* left runningPool, and the task behind it still waits.
C5_Witness ==
  /\ scenario.phase = "paused" /\ scenario.idle
  /\ last.op = "then"
  /\ getStatus.running = 0 /\ getStatus.waiting = 1
  /\ scenario.n = 2

\* The tasks whose settlement bookkeeping is over: the body has settled
\* and the then and catch reactions of its chain have run.
Booked ==
  {t \in Ids : /\ body[t].st = "settled"
               /\ \A i \in 1..Len(microtasks) :
                    microtasks[i].args = t => microtasks[i].stage = "finally"}

\* C6: while the scheduler is paused no step moves a task from restPool to
\* runningPool; a running task that settles while the scheduler is paused,
\* without having been deleted, still appends its Result Record, and once
\* its bookkeeping is over it has a record and is out of runningPool.
C6_PauseBlocksOnlyDequeue ==
  /\ paused => NoBodyInvoked
  /\ (paused /\ last.op \in {"then", "catch"} /\ ~deleted[last.arg]) =>
       /\ resultPool # <<>>
       /\ resultPool[Len(resultPool)].result = last.arg
       /\ resultPool[Len(resultPool)].status =
            (IF last.op = "then" THEN "success" ELSE "error")
  /\ \A t \in Booked :
       ~deleted[t] => produced[t] >= 1 /\ t \notin ArgsOf(runningPool)

\* Paused, a task has just settled and left a free slot, a task waits.
C6_Witness ==
  /\ paused
  /\ last.op \in {"then", "catch"} /\ ~deleted[last.arg]
  /\ last.arg \in Booked \/ ~last.flag
  /\ last.arg \notin ArgsOf(runningPool)
  /\ Len(restPool) > 0 /\ Len(runningPool) < concurrency

\* C7: with autoSubmit set, when a drain has invoked submit, the chunk is
\* empty once the drain step is over, whatever submit did.
C7_ChunkEmptyAfterSubmit ==
  (autoSubmit /\ last.op = "finally" /\ Calls("submit") # <<>>) =>
    chunkResultPool = <<>>

StrictlyAscending(arr) ==
  \A i \in 1..Len(arr) : \A j \in (i + 1)..Len(arr) : arr[i].seq < arr[j].seq

\* C8: with maintainOrder = true every array passed to the result callback
\* or to submit is strictly ascending by seq.
C8_DeliveredAscending ==
  maintainOrder =>
    \A i \in 1..Len(Delivered) : StrictlyAscending(Delivered[i].arr)

\* Position of task t in the order in which the bodies settled.
SettledAt(t) == CHOOSE i \in 1..Len(settled) : settled[i] = t

InSettlementOrder(arr) ==
  \A i \in 1..Len(arr) : \A j \in (i + 1)..Len(arr) :
    SettledAt(arr[i].result) <= SettledAt(arr[j].result)

\* C9: with maintainOrder = false every array passed to the result callback
\* or to submit lists its records in the order in which the tasks settled.
C9_DeliveredInSettlementOrder ==
  ~maintainOrder =>
    \A i \in 1..Len(Delivered) : InSettlementOrder(Delivered[i].arr)

\* The run is over: start() was called and nothing is waiting, running,
\* in flight or queued.
RunOver ==
  /\ last.op # "new"
  /\ Drained(St)
  /\ microtasks = <<>>
  /\ \A t \in Ids : body[t].st # "pending"

\* C10 (at the drain): resultPool holds exactly N Result Records, all with
\* status success, and getStatus().finished = N.
C10_AllSucceededAtDrain ==
  RunOver =>
    /\ getStatus.finished = getStatus.total
    /\ \A i \in 1..Len(resultPool) : resultPool[i].status = "success"
    /\ \A t \in ArgsOf(allTasks) : produced[t] = 1

\* C10 (liveness): the run ends.
C10_EventuallyDrains == <>RunOver

\* Nothing is waiting, running, in flight or queued.
Idle ==
  /\ Drained(St)
  /\ microtasks = <<>>
  /\ \A t \in Ids : body[t].st # "pending"

\* C11: whenever restPool and runningPool are empty and no body is in
\* flight the active flag is false, and a start() called when tasks wait,
\* nothing runs and nothing is in flight (not paused, concurrency >= 1) puts
\* at least one task into runningPool.
C11_StartWorksAfterIdle ==
  [][/\ Idle' => ~isRunning'
     /\ (/\ last'.op = "start"
         /\ runningPool = <<>> /\ restPool # <<>>
         /\ microtasks = <<>> /\ \A t \in Ids : body[t].st # "pending"
         /\ ~paused /\ concurrency >= 1)
          => Len(runningPool') >= 1]_vars

\* The step runs a reaction of the chain of a body whose task is not in
\* allTasks (under SpecReset: a body started before the last reset()).
ReactionOfForgottenTask ==
  /\ microtasks # <<>>
  /\ Head(microtasks).args \notin ArgsOf(allTasks)
  /\ last'.op \in {"then", "pass", "catch", "finally"}

\* C12: reset() leaves every pool empty and the seq counter 0, and the
\* later settlement of a body started before reset() adds no Result Record
\* to resultPool or chunkResultPool, removes no task from runningPool and
\* invokes neither the result callback nor submit.
C12_ResetLikeFresh ==
  [][/\ last'.op = "reset" =>
          /\ allTasks' = <<>> /\ restPool' = <<>> /\ runningPool' = <<>>
          /\ resultPool' = <<>> /\ chunkResultPool' = <<>>
          /\ index' = 0
     /\ ReactionOfForgottenTask =>
          /\ resultPool' = resultPool
          /\ chunkResultPool' = chunkResultPool
          /\ ArgsOf(runningPool) \subseteq ArgsOf(runningPool')
          /\ Delivered' = <<>>]_vars

\* C13: the value last given to setImmediately (the field immediately)
\* decides the delivery mode of a settlement: when it is true the then or
\* catch handler of a non-deleted settlement invokes the result callback
\* and the drain does not; when it is false the handlers do not invoke it
\* and the drain, with a non-empty resultPool, does.
C13_SetImmediatelyTakesEffect ==
  /\ (last.op \in {"then", "catch"} /\ ~deleted[last.arg]) =>
       (immediately <=> Calls("executor") # <<>>)
  /\ (last.op = "finally" /\ Drained(St) /\ resultPool # <<>>) =>
       (~immediately <=> Calls("executor") # <<>>)

\* The step runs a reaction of the chain of a body whose proxy was marked
\* deleted by deleteTask while it was in runningPool.
ReactionOfDeletedTask ==
  /\ microtasks # <<>>
  /\ deleted[Head(microtasks).args]
  /\ last'.op \in {"then", "pass", "catch", "finally"}

\* C14: after deleteTask(seq) on a running task, no reaction to the
\* settlement of that task's body changes a pool or a flag, and none
\* invokes the result callback or submit.
C14_DeletedSettlementInert ==
  [][ReactionOfDeletedTask =>
       /\ UNCHANGED <<allTasks, restPool, runningPool, resultPool,
                      chunkResultPool, isRunning, paused>>
       /\ Delivered' = <<>>]_vars

\* The tasks handed to the scheduler so far.
Accepted == 1..(nextArgs - 1)

\* C15: stop() empties restPool and runningPool and clears the active and
\* paused flags, leaving resultPool, chunkResultPool, allTasks and the seq
\* counter unchanged; a task that is out of restPool never enters it again
\* and, if its body was not invoked, it never is: no task that waited in
\* restPool when stop() was called starts afterwards.
C15_StopDiscardsWaiting ==
  [][/\ last'.op = "stop" =>
          /\ restPool' = <<>> /\ runningPool' = <<>>
          /\ ~isRunning' /\ ~paused'
          /\ UNCHANGED <<resultPool, chunkResultPool, allTasks, index>>
     /\ \A t \in Accepted :
          t \notin ArgsOf(restPool) =>
            /\ t \notin ArgsOf(restPool')
            /\ body[t].st = "new" => body'[t].st = "new"]_vars

\* A task that waited when stop() was called is still known and was never
\* started, and a pass has just started the task added after stop().
C15_Witness ==
  /\ last.op = "addTask"
  /\ Calls("body") # <<>>
  /\ \E t \in ArgsOf(allTasks) :
       t \notin ArgsOf(restPool) /\ body[t].st = "new"

\* C16: addTask called with an empty list changes no pool, not the seq
\* counter, not the active flag and not the paused flag, and starts no task.
C16_AddNothingIsNoOp ==
  [][(last'.op = "addTask" /\ last'.arg = 0) =>
       /\ UNCHANGED <<allTasks, restPool, runningPool, resultPool,
                      chunkResultPool, index, isRunning, paused>>
       /\ NoBodyInvoked']_vars

Known(S) == ArgsOf(S.allTasks) \cup ArgsOf(S.restPool) \cup ArgsOf(S.runningPool)

\* C17: deleteTask(seq) with a seq that is in none of restPool, runningPool
\* and allTasks removes nothing from any pool and invokes no cleanup
\* callback (the pass it triggers may move waiting tasks to runningPool);
\* and a task whose cleanup callback a deleteTask has invoked is in none of
\* these pools afterwards, so that no later deleteTask invokes it again.
C17_CleanupAtMostOnce ==
  [][last'.op = "deleteTask" =>
       /\ last'.arg \notin
            (SeqsOf(restPool) \cup SeqsOf(runningPool) \cup SeqsOf(allTasks)) =>
              /\ UNCHANGED <<allTasks, resultPool, chunkResultPool>>
              /\ ArgsOf(runningPool) \subseteq ArgsOf(runningPool')
              /\ ArgsOf(restPool) \subseteq
                   ArgsOf(restPool') \cup ArgsOf(runningPool')
              /\ Calls("handleDelete")' = <<>>
       /\ \A i \in 1..Len(Calls("handleDelete")') :
            Calls("handleDelete")'[i].arg \notin Known(St)']_vars

\* The seqs of the tasks whose bodies the last step invoked, in the order
\* of the invocations.
StartedNow == [i \in 1..Len(Calls("body")) |-> body[Calls("body")[i].arg].seq]

SlotJustFreed ==
  \/ /\ last.op \in {"then", "catch"}
     /\ ~deleted[last.arg]
     /\ produced[last.arg] = 1
     /\ last.arg \notin ArgsOf(runningPool)
  \/ /\ last.op = "deleteTask"
     /\ last.n # 0

C19_FreedSlotIsRefilled ==
  (SlotJustFreed /\ ~paused) =>
    (restPool = <<>> \/ Len(runningPool) >= concurrency)

\* C20: on a scheduler on which stop() and reset() were never called,
\* getStatus() satisfies total = running + waiting + finished: allTasks
\* holds exactly the tasks of restPool, runningPool and resultPool, and no
\* seq is in two of these three pools.
C20_StatusAddsUp ==
  /\ getStatus.total =
       getStatus.running + getStatus.waiting + getStatus.finished
  /\ SeqsOf(allTasks) =
       SeqsOf(restPool) \cup SeqsOf(runningPool) \cup SeqsOf(resultPool)
  /\ SeqsOf(restPool) \cap SeqsOf(runningPool) = {}
  /\ SeqsOf(restPool) \cap SeqsOf(resultPool) = {}
  /\ SeqsOf(runningPool) \cap SeqsOf(resultPool) = {}

\* C21: with autoSubmit set, no Result Record is handed to submit more than
\* once: no record of a chunk passed to submit was in a chunk passed to an
\* earlier invocation, and every record of the chunk is in resultPool when
\* submit is called.
C21_SubmittedOnce ==
  [][autoSubmit =>
       \A c \in 1..Len(Calls("submit")') :
         \A i \in 1..Len(Calls("submit")'[c].arr) :
           LET r == Calls("submit")'[c].arr[i]
           IN /\ r \notin submitted
              /\ \E k \in 1..Len(resultPool') : resultPool'[k] = r]_vars

====
